---- MODULE Spec2Model ----
(***************************************************************************)
(* Model of lib/runsimgh: the Integration that ties a GitHub check run to  *)
(* a record in the SimulationState table.  Every method of Integration is  *)
(* one action; the State Store (runsimaws.DdbTable), the Secret Provider   *)
(* (runsimaws.Ssm), the GitHub App transport and the GitHub API are the    *)
(* collaborators the methods call, each call logged in `calls`.            *)
(*                                                                         *)
(* A nil pointer is None (the empty tuple) and a set pointer is Some(v)    *)
(* (a one-element tuple), so that nil, "" and a value are three things.    *)
(* The identifiers that the code parses with strconv.Atoi are sequences of *)
(* characters, so that parsing is computed and not assumed.                *)
(***************************************************************************)
EXTENDS Integers, Sequences, FiniteSets, TLC

VARIABLES
    gh,         \* gh[p]: the Integration object of process p
    running,    \* running[p]: "off", "up" or "crashed" (after a panic)
    store,      \* the SimulationState table: partition key -> record or None
    checkRuns,  \* the check runs on the host, oldest first
    actor,      \* the process that made the last call
    op,         \* the method of the last call
    ret,        \* what the last call returned: NoErr, an error, or Panic
    args,       \* the arguments of the last call, and where it was made to fail
    calls,      \* the collaborator calls the last call made, in order
    origin      \* who wrote the record now under the "GitHub" key, and what
                \* the call that wrote it returned

vars == <<gh, running, store, checkRuns, actor, op, args, ret, calls, origin>>

----------------------------------------------------------------------------
(* Optional values (Go pointers) *)

None == <<>>
Some(v) == <<v>>
IsSome(o) == o # <<>>
Val(o) == o[1]

----------------------------------------------------------------------------
(* Bounds and input sets *)

MaxCheckRuns == 2

Procs == {"p1", "p2"}

primaryKey == "IntegrationType"
tableName == "SimulationState"
GitHubKey == "GitHub"
OtherKey == "Slack"
StoreKeys == {GitHubKey, OtherKey}

AwsRegion == "us-east-1"
SecretID == "gh-app-key"

RepoOwnerArgs == {"octo"}
RepoNameArgs == {"tools"}
CheckRunNameArgs == {"sim", ""}
InstallationIDArgs == {<<"3", "4">>}
IntegrationIDArgs == {<<"1", "2">>, <<"x">>}
PrNumArgs == {<<"5">>, <<"0", "6">>}

\* The arguments ConfigFromScratch is tried with on the construction paths.
ScratchArgs ==
    [repoOwner : RepoOwnerArgs, repoName : RepoNameArgs,
     checkRunName : CheckRunNameArgs, installationID : InstallationIDArgs,
     integrationID : IntegrationIDArgs, prNum : PrNumArgs]

\* The arguments of the job whose check run the lifecycle follows: one pull
\* request, the check run named or its name left empty.
JobArgs ==
    {a \in ScratchArgs : /\ a.installationID = <<"3", "4">>
                         /\ a.integrationID = <<"1", "2">>
                         /\ a.prNum = <<"5">>}

\* The point of a call at which a collaborator fails ("none": nowhere).
Faults == {"none", "store", "ssm", "auth", "host"}

NoErr == "nil"
Panic == "panic"
StateStoreError == "StateStoreError"
SecretRetrievalError == "SecretRetrievalError"
AuthenticationError == "AuthenticationError"
NotFoundError == "NotFoundError"
TransportError == "TransportError"

----------------------------------------------------------------------------
(* The Integration struct *)

ConfigFields ==
    <<"IntegrationID", "InstallationID", "PrNum", "RepoName", "RepoOwner",
      "CheckRunName">>

PersistedFields ==
    {"IntegrationType", "CheckRunName", "InstallationID", "IntegrationID",
     "RepoOwner", "RepoName", "PrNum"}

NewIntegration ==
    [Client |-> None, PR |-> None, ActiveCheckRun |-> None, State |-> None,
     IntegrationType |-> None, CheckRunName |-> None, InstallationID |-> None,
     IntegrationID |-> None, RepoOwner |-> None, RepoName |-> None,
     PrNum |-> None]

\* One collaborator call: what was called, with what, and what came back.
Call(fn, arg, val, err) == [fn |-> fn, arg |-> arg, val |-> val, err |-> err]

----------------------------------------------------------------------------
(* strconv.Atoi on a sequence of characters *)

Digits == {"0", "1", "2", "3", "4", "5", "6", "7", "8", "9"}

DigitVal(c) ==
    CASE c = "0" -> 0 [] c = "1" -> 1 [] c = "2" -> 2 [] c = "3" -> 3
      [] c = "4" -> 4 [] c = "5" -> 5 [] c = "6" -> 6 [] c = "7" -> 7
      [] c = "8" -> 8 [] c = "9" -> 9

RECURSIVE DecimalVal(_)
DecimalVal(s) ==
    IF s = <<>> THEN 0
    ELSE 10 * DecimalVal(SubSeq(s, 1, Len(s) - 1)) + DigitVal(s[Len(s)])

Atoi(s) ==
    LET signed == Len(s) > 0 /\ s[1] \in {"+", "-"}
        body == IF signed THEN Tail(s) ELSE s
        ok == Len(body) > 0 /\ \A i \in 1..Len(body) : body[i] \in Digits
    IN  IF ~ok THEN [val |-> 0, ok |-> FALSE]
        ELSE [val |-> IF signed /\ s[1] = "-" THEN 0 - DecimalVal(body)
                      ELSE DecimalVal(body),
              ok |-> TRUE]

----------------------------------------------------------------------------
(* Accessors: a nil field or a malformed number panics *)

GetOwner(g) ==
    IF g.RepoOwner = None THEN [val |-> "", panic |-> TRUE]
    ELSE [val |-> Val(g.RepoOwner), panic |-> FALSE]

GetRepo(g) ==
    IF g.RepoName = None THEN [val |-> "", panic |-> TRUE]
    ELSE [val |-> Val(g.RepoName), panic |-> FALSE]

GetCheckRunName(g) ==
    IF g.CheckRunName = None THEN [val |-> "", panic |-> TRUE]
    ELSE [val |-> Val(g.CheckRunName), panic |-> FALSE]

GetPrNum(g) ==
    IF g.PrNum = None THEN [val |-> 0, panic |-> TRUE]
    ELSE LET a == Atoi(Val(g.PrNum)) IN [val |-> a.val, panic |-> ~a.ok]

\* GetAppInstID returning the zero value where Atoi fails.
GetAppInstID_ZeroOnError(g) ==
    IF g.InstallationID = None THEN [val |-> 0, panic |-> TRUE]
    ELSE LET a == Atoi(Val(g.InstallationID))
         IN [val |-> IF a.ok THEN a.val ELSE 0, panic |-> FALSE]

GetAppInstID(g) ==
    IF g.InstallationID = None THEN [val |-> 0, panic |-> TRUE]
    ELSE LET a == Atoi(Val(g.InstallationID))
         IN [val |-> a.val, panic |-> ~a.ok]

GetAppIntID(g) ==
    IF g.IntegrationID = None THEN [val |-> 0, panic |-> TRUE]
    ELSE LET a == Atoi(Val(g.IntegrationID))
         IN [val |-> a.val, panic |-> ~a.ok]

\* ValidateState with the RepoOwner check ahead of the RepoName check.
ValidateState_OwnerBeforeName(g) ==
    IF g.IntegrationID = None THEN "ErrorMissingAttribute: IntegrationID"
    ELSE IF g.InstallationID = None
         THEN "ErrorMissingAttribute: InstallationID "
    ELSE IF g.PrNum = None THEN "ErrorMissingAttribute: PrNum"
    ELSE IF g.RepoOwner = None THEN "ErrorMissingAttribute: RepoOwner"
    ELSE IF g.RepoName = None THEN "ErrorMissingAttribute: RepoName"
    ELSE IF g.CheckRunName = None THEN "ErrorMissingAttribute: CheckRunName"
    ELSE NoErr

ValidateState(g) ==
    IF g.IntegrationID = None THEN "ErrorMissingAttribute: IntegrationID"
    ELSE IF g.InstallationID = None
         THEN "ErrorMissingAttribute: InstallationID "
    ELSE IF g.PrNum = None THEN "ErrorMissingAttribute: PrNum"
    ELSE IF g.RepoName = None THEN "ErrorMissingAttribute: RepoName"
    ELSE IF g.RepoOwner = None THEN "ErrorMissingAttribute: RepoOwner"
    ELSE IF g.CheckRunName = None THEN "ErrorMissingAttribute: CheckRunName"
    ELSE NoErr

----------------------------------------------------------------------------
(* Collaborators of the construction paths *)

\* runsimaws.DdbTable.Config: the binding gh.State holds.
DdbConfig(region, keyField, table) ==
    [region |-> region, primaryKey |-> keyField, tableName |-> table]

\* The record PutState writes for an Integration: its persisted fields.
Marshal(g) == [f \in PersistedFields |-> g[f]]

\* A record read back into an Integration.  What a missing attribute does
\* to a field that is already set is not fixed: kept, or cleared.
Unmarshal(rec, g, keep) ==
    [f \in DOMAIN g |->
        IF f \notin PersistedFields THEN g[f]
        ELSE IF IsSome(rec[f]) THEN rec[f]
        ELSE IF keep THEN g[f] ELSE None]

\* runsimaws.DdbTable.PutState: upsert under the record's partition key.
DdbPutState(st, g, fail) ==
    IF fail \/ g.IntegrationType = None
    THEN [store |-> st, err |-> StateStoreError]
    ELSE [store |-> [st EXCEPT ![Val(g.IntegrationType)] = Some(Marshal(g))],
          err |-> NoErr]

\* runsimaws.DdbTable.GetState: load the record under `key` into g.
DdbGetState(st, key, g, fail, keep) ==
    IF fail \/ st[key] = None
    THEN [gh |-> g, err |-> StateStoreError]
    ELSE [gh |-> Unmarshal(Val(st[key]), g, keep), err |-> NoErr]

\* runsimaws.DdbTable.DeleteState: remove the record under `key`.
DdbDeleteState(st, key, fail) ==
    IF fail THEN [store |-> st, err |-> StateStoreError]
    ELSE [store |-> [st EXCEPT ![key] = None], err |-> NoErr]

\* runsimaws.Ssm.GetParameter
SsmGetParameter(id, fail) ==
    IF fail THEN [val |-> "", err |-> SecretRetrievalError]
    ELSE [val |-> "private-key", err |-> NoErr]

\* ghinstallation.New: the transport of an authenticated GitHub App.
GhappNew(intID, instID, key, fail) ==
    IF fail THEN [val |-> None, err |-> AuthenticationError]
    ELSE [val |-> Some([appID |-> intID, instID |-> instID, key |-> key]),
          err |-> NoErr]

\* github.NewClient over a transport.
NewClient(transport) == Some([transport |-> Val(transport)])

\* The pull request the host has: octo/tools#5, head feature @ abc123.
HostPullRequest ==
    [Number |-> 5, Head |-> [Ref |-> Some("feature"), SHA |-> Some("abc123")]]

\* Client.PullRequests.Get: nil and an error unless the host has the PR.
PullRequestsGet(owner, repo, num, fail) ==
    IF fail THEN [val |-> None, err |-> TransportError]
    ELSE IF owner = "octo" /\ repo = "tools" /\ num = HostPullRequest.Number
    THEN [val |-> Some(HostPullRequest), err |-> NoErr]
    ELSE [val |-> None, err |-> NotFoundError]

----------------------------------------------------------------------------
(* Construction and authentication *)

\* Authenticate with the client built before ghapp.New's error is looked at.
Authenticate_ClientBeforeErrCheck(g, secretID, fault, cs) ==
    LET sec == SsmGetParameter(secretID, fault = "ssm")
        c2 == Append(cs, Call("GetParameter", [id |-> secretID], None, sec.err))
        intID == GetAppIntID(g)
        instID == GetAppInstID(g)
        tr == GhappNew(intID.val, instID.val, sec.val, fault = "auth")
        c3 == Append(c2, Call("ghapp.New",
                              [appID |-> intID.val, instID |-> instID.val,
                               key |-> sec.val], tr.val, tr.err))
        g2 == [g EXCEPT !.Client = Some([transport |-> tr.val])]
        owner == GetOwner(g2)
        repo == GetRepo(g2)
        num == GetPrNum(g2)
        pr == PullRequestsGet(owner.val, repo.val, num.val, fault = "host")
        c4 == Append(c3, Call("PullRequests.Get",
                              [owner |-> owner.val, repo |-> repo.val,
                               number |-> num.val], pr.val, pr.err))
    IN  IF sec.err # NoErr THEN [gh |-> g, ret |-> sec.err, calls |-> c2]
        ELSE IF intID.panic \/ instID.panic
        THEN [gh |-> g, ret |-> Panic, calls |-> c2]
        ELSE IF tr.err # NoErr THEN [gh |-> g2, ret |-> tr.err, calls |-> c3]
        ELSE IF owner.panic \/ repo.panic \/ num.panic
        THEN [gh |-> g2, ret |-> Panic, calls |-> c3]
        ELSE [gh |-> [g2 EXCEPT !.PR = pr.val], ret |-> pr.err, calls |-> c4]

\* The steps both construction paths end with: fetch the private key, build
\* the GitHub App transport and the client, fetch the pull request.  `cs` is
\* the calls made so far.
Authenticate(g, secretID, fault, cs) ==
    LET sec == SsmGetParameter(secretID, fault = "ssm")
        c2 == Append(cs, Call("GetParameter", [id |-> secretID], None, sec.err))
        intID == GetAppIntID(g)
        instID == GetAppInstID(g)
        tr == GhappNew(intID.val, instID.val, sec.val, fault = "auth")
        c3 == Append(c2, Call("ghapp.New",
                              [appID |-> intID.val, instID |-> instID.val,
                               key |-> sec.val], tr.val, tr.err))
        g2 == [g EXCEPT !.Client = NewClient(tr.val)]
        owner == GetOwner(g2)
        repo == GetRepo(g2)
        num == GetPrNum(g2)
        pr == PullRequestsGet(owner.val, repo.val, num.val, fault = "host")
        c4 == Append(c3, Call("PullRequests.Get",
                              [owner |-> owner.val, repo |-> repo.val,
                               number |-> num.val], pr.val, pr.err))
    IN  IF sec.err # NoErr THEN [gh |-> g, ret |-> sec.err, calls |-> c2]
        ELSE IF intID.panic \/ instID.panic
        THEN [gh |-> g, ret |-> Panic, calls |-> c2]
        ELSE IF tr.err # NoErr THEN [gh |-> g, ret |-> tr.err, calls |-> c3]
        ELSE IF owner.panic \/ repo.panic \/ num.panic
        THEN [gh |-> g2, ret |-> Panic, calls |-> c3]
        ELSE [gh |-> [g2 EXCEPT !.PR = pr.val], ret |-> pr.err, calls |-> c4]

\* ConfigFromState going on to the Secret Provider without ValidateState.
ConfigFromState_NoValidate(g, st, fault, keep) ==
    LET g0 == [g EXCEPT !.State = Some(DdbConfig(AwsRegion, primaryKey, tableName))]
        load == DdbGetState(st, "GitHub", g0, fault = "store", keep)
        c1 == <<Call("GetState", [key |-> "GitHub"], st["GitHub"], load.err)>>
        g1 == load.gh
    IN  IF load.err # NoErr THEN [gh |-> g1, ret |-> load.err, calls |-> c1]
        ELSE Authenticate(g1, SecretID, fault, c1)

ConfigFromState(g, st, fault, keep) ==
    LET g0 == [g EXCEPT !.State = Some(DdbConfig(AwsRegion, primaryKey, tableName))]
        load == DdbGetState(st, "GitHub", g0, fault = "store", keep)
        c1 == <<Call("GetState", [key |-> "GitHub"], st["GitHub"], load.err)>>
        g1 == load.gh
        valid == ValidateState(g1)
    IN  IF load.err # NoErr THEN [gh |-> g1, ret |-> load.err, calls |-> c1]
        ELSE IF valid # NoErr THEN [gh |-> g1, ret |-> valid, calls |-> c1]
        ELSE Authenticate(g1, SecretID, fault, c1)

\* ConfigFromScratch authenticating first and writing the record last.
ConfigFromScratch_AuthBeforePut(g, st, a, fault) ==
    LET g1 == [g EXCEPT !.RepoOwner = Some(a.repoOwner),
                        !.RepoName = Some(a.repoName),
                        !.CheckRunName = Some(a.checkRunName),
                        !.InstallationID = Some(a.installationID),
                        !.IntegrationID = Some(a.integrationID),
                        !.PrNum = Some(a.prNum),
                        !.IntegrationType = Some("GitHub"),
                        !.State = Some(DdbConfig(AwsRegion, primaryKey, tableName))]
        auth == Authenticate(g1, SecretID, fault, <<>>)
        put == DdbPutState(st, auth.gh, fault = "store")
        c5 == Append(auth.calls, Call("PutState", Marshal(auth.gh), None, put.err))
    IN  IF auth.ret # NoErr
        THEN [gh |-> auth.gh, store |-> st, ret |-> auth.ret, calls |-> auth.calls]
        ELSE [gh |-> auth.gh, store |-> put.store, ret |-> put.err, calls |-> c5]

\* ConfigFromScratch writing the record before PrNum is assigned.
ConfigFromScratch_PutBeforePrNum(g, st, a, fault) ==
    LET g0 == [g EXCEPT !.RepoOwner = Some(a.repoOwner),
                        !.RepoName = Some(a.repoName),
                        !.CheckRunName = Some(a.checkRunName),
                        !.InstallationID = Some(a.installationID),
                        !.IntegrationID = Some(a.integrationID),
                        !.IntegrationType = Some("GitHub"),
                        !.State = Some(DdbConfig(AwsRegion, primaryKey, tableName))]
        put == DdbPutState(st, g0, fault = "store")
        c1 == <<Call("PutState", Marshal(g0), None, put.err)>>
        g1 == [g0 EXCEPT !.PrNum = Some(a.prNum)]
        auth == Authenticate(g1, SecretID, fault, c1)
    IN  IF put.err # NoErr
        THEN [gh |-> g1, store |-> put.store, ret |-> put.err, calls |-> c1]
        ELSE [gh |-> auth.gh, store |-> put.store, ret |-> auth.ret,
              calls |-> auth.calls]

\* ConfigFromScratch with the two id arguments assigned to each other's field.
ConfigFromScratch_SwappedIDs(g, st, a, fault) ==
    LET g1 == [g EXCEPT !.RepoOwner = Some(a.repoOwner),
                        !.RepoName = Some(a.repoName),
                        !.CheckRunName = Some(a.checkRunName),
                        !.InstallationID = Some(a.integrationID),
                        !.IntegrationID = Some(a.installationID),
                        !.PrNum = Some(a.prNum),
                        !.IntegrationType = Some("GitHub"),
                        !.State = Some(DdbConfig(AwsRegion, primaryKey, tableName))]
        put == DdbPutState(st, g1, fault = "store")
        c1 == <<Call("PutState", Marshal(g1), None, put.err)>>
        auth == Authenticate(g1, SecretID, fault, c1)
    IN  IF put.err # NoErr
        THEN [gh |-> g1, store |-> put.store, ret |-> put.err, calls |-> c1]
        ELSE [gh |-> auth.gh, store |-> put.store, ret |-> auth.ret,
              calls |-> auth.calls]

\* ConfigFromScratch writing the whole Integration, session fields included.
ConfigFromScratch_PersistsSession(g, st, a, fault) ==
    LET g1 == [g EXCEPT !.RepoOwner = Some(a.repoOwner),
                        !.RepoName = Some(a.repoName),
                        !.CheckRunName = Some(a.checkRunName),
                        !.InstallationID = Some(a.installationID),
                        !.IntegrationID = Some(a.integrationID),
                        !.PrNum = Some(a.prNum),
                        !.IntegrationType = Some("GitHub"),
                        !.State = Some(DdbConfig(AwsRegion, primaryKey, tableName))]
        put == DdbPutState(st, g1, fault = "store")
        c1 == <<Call("PutState", Marshal(g1), None, put.err)>>
        auth == Authenticate(g1, SecretID, fault, c1)
        whole == IF put.err = NoErr
                 THEN [put.store EXCEPT !["GitHub"] = Some(g1)] ELSE put.store
    IN  IF put.err # NoErr
        THEN [gh |-> g1, store |-> put.store, ret |-> put.err, calls |-> c1]
        ELSE [gh |-> auth.gh, store |-> whole, ret |-> auth.ret,
              calls |-> auth.calls]

\* ConfigFromScratch that writes only when the table has no record yet.
ConfigFromScratch_KeepExisting(g, st, a, fault) ==
    LET g1 == [g EXCEPT !.RepoOwner = Some(a.repoOwner),
                        !.RepoName = Some(a.repoName),
                        !.CheckRunName = Some(a.checkRunName),
                        !.InstallationID = Some(a.installationID),
                        !.IntegrationID = Some(a.integrationID),
                        !.PrNum = Some(a.prNum),
                        !.IntegrationType = Some("GitHub"),
                        !.State = Some(DdbConfig(AwsRegion, primaryKey, tableName))]
        put == IF st["GitHub"] # None /\ fault # "store"
               THEN [store |-> st, err |-> NoErr]
               ELSE DdbPutState(st, g1, fault = "store")
        c1 == <<Call("PutState", Marshal(g1), None, put.err)>>
        auth == Authenticate(g1, SecretID, fault, c1)
    IN  IF put.err # NoErr
        THEN [gh |-> g1, store |-> put.store, ret |-> put.err, calls |-> c1]
        ELSE [gh |-> auth.gh, store |-> put.store, ret |-> auth.ret,
              calls |-> auth.calls]

ConfigFromScratch(g, st, a, fault) ==
    LET g1 == [g EXCEPT !.RepoOwner = Some(a.repoOwner),
                        !.RepoName = Some(a.repoName),
                        !.CheckRunName = Some(a.checkRunName),
                        !.InstallationID = Some(a.installationID),
                        !.IntegrationID = Some(a.integrationID),
                        !.PrNum = Some(a.prNum),
                        !.IntegrationType = Some("GitHub"),
                        !.State = Some(DdbConfig(AwsRegion, primaryKey, tableName))]
        put == DdbPutState(st, g1, fault = "store")
        c1 == <<Call("PutState", Marshal(g1), None, put.err)>>
        auth == Authenticate(g1, SecretID, fault, c1)
    IN  IF put.err # NoErr
        THEN [gh |-> g1, store |-> put.store, ret |-> put.err, calls |-> c1]
        ELSE [gh |-> auth.gh, store |-> put.store, ret |-> auth.ret,
              calls |-> auth.calls]

\* Of what a whole call r of ConfigFromScratch on g does, the part done when
\* PutState returns: Authenticate changes Client and PR only.
PutStatePart(g, r) ==
    [gh |-> [r.gh EXCEPT !.Client = g.Client, !.PR = g.PR],
     store |-> r.store, err |-> r.calls[1].err, calls |-> <<r.calls[1]>>]

\* ConfigFromScratch from its entry to the return of PutState (lines 69-81),
\* the one place where it touches the table: the fields assigned, the record
\* written, Client and PR not yet touched.
ScratchWrite(g, st, a, fault) ==
    PutStatePart(g, ConfigFromScratch(g, st, a, fault))

\* ConfigFromScratch from the return of a successful PutState to its own
\* return (lines 83-98); g holds the fields assigned on entry.
ScratchAuthenticate(g, fault) ==
    Authenticate(g, SecretID, fault, <<Call("PutState", Marshal(g), None, NoErr)>>)

\* The arguments the fields of g were assigned from.
ArgsOf(g) ==
    [repoOwner |-> Val(g.RepoOwner), repoName |-> Val(g.RepoName),
     checkRunName |-> Val(g.CheckRunName),
     installationID |-> Val(g.InstallationID),
     integrationID |-> Val(g.IntegrationID), prNum |-> Val(g.PrNum)]

\* DeleteState reporting an absent record as an error.
DeleteState_AbsentIsError(g, st, fault) ==
    IF g.State = None
    THEN [store |-> st, ret |-> Panic, calls |-> <<>>]
    ELSE LET del == DdbDeleteState(st, "GitHub", fault = "store")
             err == IF st["GitHub"] = None THEN NotFoundError ELSE del.err
         IN  [store |-> del.store, ret |-> err,
              calls |-> <<Call("DeleteState", [key |-> "GitHub"], st["GitHub"],
                               del.err)>>]

DeleteState(g, st, fault) ==
    IF g.State = None
    THEN [store |-> st, ret |-> Panic, calls |-> <<>>]
    ELSE LET del == DdbDeleteState(st, "GitHub", fault = "store")
         IN  [store |-> del.store, ret |-> del.err,
              calls |-> <<Call("DeleteState", [key |-> "GitHub"], st["GitHub"],
                               del.err)>>]

----------------------------------------------------------------------------
(* The host's check runs (GitHub Checks API) *)

StatusArgs == {Some("in_progress"), Some("completed")}
SummaryArgs == {None, Some("details")}
ConclusionArgs == {None, Some("success")}
Timestamps == {"T1"}

HostStatuses == {"queued", "in_progress", "completed"}
HostConclusions == {"success", "failure", "neutral", "cancelled", "timed_out",
                    "action_required"}

\* go-github's nil-safe getters on *CheckRun.
GetID(acr) == IF acr = None THEN 0 ELSE Val(acr).ID
GetName(acr) ==
    IF acr = None \/ Val(acr).Name = None THEN "" ELSE Val(Val(acr).Name)
GetConclusion(run) == IF run.Conclusion = None THEN "" ELSE Val(run.Conclusion)

\* go-github's nil-safe getters on *PullRequestBranch.
GetRef(head) == IF head.Ref = None THEN "" ELSE Val(head.Ref)
GetSHA(head) == IF head.SHA = None THEN "" ELSE Val(head.SHA)

\* The commit a ref names on the host ("": no such ref).
ResolveRef(ref) ==
    IF ref = GetRef(HostPullRequest.Head) \/ ref = GetSHA(HostPullRequest.Head)
    THEN GetSHA(HostPullRequest.Head) ELSE ""

\* Checks.CreateCheckRun: a new queued run; the host refuses an empty name
\* and a commit it does not have.
HostCreateCheckRun(crs, opt, fail) ==
    IF fail \/ opt.Name = "" \/ ResolveRef(opt.HeadSHA) = ""
    THEN [checkRuns |-> crs, val |-> None, err |-> TransportError]
    ELSE LET run == [ID |-> Len(crs) + 1, Name |-> Some(opt.Name),
                     HeadSHA |-> Some(opt.HeadSHA), Status |-> Some("queued"),
                     Conclusion |-> None, CompletedAt |-> None,
                     Output |-> None]
         IN  [checkRuns |-> Append(crs, run), val |-> Some(run), err |-> NoErr]

\* The runs of `crs` named `name` on commit `sha`, newest first.
RECURSIVE Matching(_, _, _)
Matching(crs, name, sha) ==
    IF crs = <<>> THEN <<>>
    ELSE LET last == crs[Len(crs)]
             rest == Matching(SubSeq(crs, 1, Len(crs) - 1), name, sha)
         IN  IF last.Name = Some(name) /\ last.HeadSHA = Some(sha)
             THEN <<last>> \o rest ELSE rest

\* Checks.ListCheckRunsForRef: with filter "latest" only the most recent run
\* of each name is listed, with "all" every run.
HostListCheckRunsForRef(crs, ref, name, filter, fail) ==
    IF fail \/ ResolveRef(ref) = ""
    THEN [val |-> <<>>, err |-> TransportError]
    ELSE LET all == Matching(crs, name, ResolveRef(ref))
         IN  [val |-> IF filter = "latest" /\ all # <<>> THEN <<all[1]>> ELSE all,
              err |-> NoErr]

\* Checks.GetCheckRun
HostGetCheckRun(crs, id, fail) ==
    IF fail THEN [val |-> None, err |-> TransportError]
    ELSE IF id \notin 1..Len(crs) THEN [val |-> None, err |-> NotFoundError]
    ELSE [val |-> Some(crs[id]), err |-> NoErr]

\* Checks.UpdateCheckRun: the fields the request carries replace the run's;
\* the host refuses a completed run without a conclusion it knows.
HostUpdateCheckRun(crs, id, opt, fail) ==
    IF fail THEN [checkRuns |-> crs, val |-> None, err |-> TransportError]
    ELSE IF id \notin 1..Len(crs)
    THEN [checkRuns |-> crs, val |-> None, err |-> NotFoundError]
    ELSE IF \/ opt.Name = ""
            \/ IsSome(opt.Status) /\ Val(opt.Status) \notin HostStatuses
            \/ IsSome(opt.Conclusion) /\ Val(opt.Conclusion) \notin HostConclusions
            \/ opt.Status = Some("completed") /\ opt.Conclusion = None
    THEN [checkRuns |-> crs, val |-> None, err |-> TransportError]
    ELSE LET old == crs[id]
             run == [ID |-> id, Name |-> Some(opt.Name),
                     HeadSHA |-> IF IsSome(opt.HeadSHA) THEN opt.HeadSHA
                                 ELSE old.HeadSHA,
                     Status |-> IF IsSome(opt.Status) THEN opt.Status
                                ELSE old.Status,
                     Conclusion |-> IF IsSome(opt.Conclusion) THEN opt.Conclusion
                                    ELSE old.Conclusion,
                     CompletedAt |-> IF IsSome(opt.CompletedAt)
                                     THEN opt.CompletedAt ELSE old.CompletedAt,
                     Output |-> IF IsSome(opt.Output) THEN opt.Output
                                ELSE old.Output]
         IN  [checkRuns |-> [crs EXCEPT ![id] = run], val |-> Some(run),
              err |-> NoErr]

----------------------------------------------------------------------------
(* Check-run lifecycle *)

\* CreateNewCheckRun taking CheckRunName from the response before the error
\* is looked at: no response, no name.
CreateNewCheckRun_NameBeforeErrCheck(g, crs, fault) ==
    LET name == GetCheckRunName(g)
        owner == GetOwner(g)
        repo == GetRepo(g)
        opt == [Name |-> name.val, HeadBranch |-> GetRef(Val(g.PR).Head),
                HeadSHA |-> GetSHA(Val(g.PR).Head)]
        res == HostCreateCheckRun(crs, opt, fault = "host")
        c1 == <<Call("Checks.CreateCheckRun", opt, res.val, res.err)>>
        g1 == [g EXCEPT !.ActiveCheckRun = res.val,
                        !.CheckRunName = IF res.val = None THEN None
                                         ELSE Val(res.val).Name]
    IN  IF name.panic \/ g.PR = None \/ g.Client = None \/ owner.panic \/ repo.panic
        THEN [gh |-> g, checkRuns |-> crs, ret |-> Panic, calls |-> <<>>]
        ELSE [gh |-> g1, checkRuns |-> res.checkRuns, ret |-> res.err,
              calls |-> c1]

CreateNewCheckRun(g, crs, fault) ==
    LET name == GetCheckRunName(g)
        owner == GetOwner(g)
        repo == GetRepo(g)
        opt == [Name |-> name.val, HeadBranch |-> GetRef(Val(g.PR).Head),
                HeadSHA |-> GetSHA(Val(g.PR).Head)]
        res == HostCreateCheckRun(crs, opt, fault = "host")
        c1 == <<Call("Checks.CreateCheckRun", opt, res.val, res.err)>>
        g1 == [g EXCEPT !.ActiveCheckRun = res.val]
    IN  IF name.panic \/ g.PR = None \/ g.Client = None \/ owner.panic \/ repo.panic
        THEN [gh |-> g, checkRuns |-> crs, ret |-> Panic, calls |-> <<>>]
        ELSE IF res.err # NoErr
        THEN [gh |-> g1, checkRuns |-> res.checkRuns, ret |-> res.err, calls |-> c1]
        ELSE [gh |-> [g1 EXCEPT !.CheckRunName = Val(g1.ActiveCheckRun).Name],
              checkRuns |-> res.checkRuns, ret |-> NoErr, calls |-> c1]

\* SetActiveCheckRun with the conclusion test the wrong way round.
SetActiveCheckRun_InvertedTest(g, crs, fault) ==
    LET name == GetCheckRunName(g)
        owner == GetOwner(g)
        repo == GetRepo(g)
        arg == [ref |-> GetRef(Val(g.PR).Head), CheckName |-> name.val,
                Filter |-> "latest"]
        res == HostListCheckRunsForRef(crs, arg.ref, arg.CheckName, arg.Filter,
                                       fault = "host")
        c1 == <<Call("Checks.ListCheckRunsForRef", arg, res.val, res.err)>>
    IN  IF g.Client = None \/ owner.panic \/ repo.panic \/ g.PR = None \/ name.panic
        THEN [gh |-> g, ret |-> Panic, calls |-> <<>>]
        ELSE IF res.err # NoErr THEN [gh |-> g, ret |-> res.err, calls |-> c1]
        ELSE IF Len(res.val) = 0 \/ GetConclusion(res.val[1]) = ""
        THEN [gh |-> g, ret |-> "ErrorNoActiveCheckRunsFound", calls |-> c1]
        ELSE [gh |-> [g EXCEPT !.ActiveCheckRun = Some(res.val[1])],
              ret |-> NoErr, calls |-> c1]

\* SetActiveCheckRun that only refuses an empty list.
SetActiveCheckRun_EmptyOnly(g, crs, fault) ==
    LET name == GetCheckRunName(g)
        owner == GetOwner(g)
        repo == GetRepo(g)
        arg == [ref |-> GetRef(Val(g.PR).Head), CheckName |-> name.val,
                Filter |-> "latest"]
        res == HostListCheckRunsForRef(crs, arg.ref, arg.CheckName, arg.Filter,
                                       fault = "host")
        c1 == <<Call("Checks.ListCheckRunsForRef", arg, res.val, res.err)>>
    IN  IF g.Client = None \/ owner.panic \/ repo.panic \/ g.PR = None \/ name.panic
        THEN [gh |-> g, ret |-> Panic, calls |-> <<>>]
        ELSE IF res.err # NoErr THEN [gh |-> g, ret |-> res.err, calls |-> c1]
        ELSE IF Len(res.val) = 0
        THEN [gh |-> g, ret |-> "ErrorNoActiveCheckRunsFound", calls |-> c1]
        ELSE [gh |-> [g EXCEPT !.ActiveCheckRun = Some(res.val[1])],
              ret |-> NoErr, calls |-> c1]

\* SetActiveCheckRun assigning the result before looking at the error or at
\* the list, the way the other check-run methods do.
SetActiveCheckRun_AssignFirst(g, crs, fault) ==
    LET name == GetCheckRunName(g)
        owner == GetOwner(g)
        repo == GetRepo(g)
        arg == [ref |-> GetRef(Val(g.PR).Head), CheckName |-> name.val,
                Filter |-> "latest"]
        res == HostListCheckRunsForRef(crs, arg.ref, arg.CheckName, arg.Filter,
                                       fault = "host")
        c1 == <<Call("Checks.ListCheckRunsForRef", arg, res.val, res.err)>>
        g1 == [g EXCEPT !.ActiveCheckRun =
                 IF res.err # NoErr \/ Len(res.val) = 0 THEN None
                 ELSE Some(res.val[1])]
    IN  IF g.Client = None \/ owner.panic \/ repo.panic \/ g.PR = None \/ name.panic
        THEN [gh |-> g, ret |-> Panic, calls |-> <<>>]
        ELSE IF res.err # NoErr THEN [gh |-> g1, ret |-> res.err, calls |-> c1]
        ELSE IF Len(res.val) = 0 \/ GetConclusion(res.val[1]) # ""
        THEN [gh |-> g1, ret |-> "ErrorNoActiveCheckRunsFound", calls |-> c1]
        ELSE [gh |-> g1, ret |-> NoErr, calls |-> c1]

\* SetActiveCheckRun listing every run of the name and settling for the
\* newest one that is still open.
SetActiveCheckRun_AnyOpenRun(g, crs, fault) ==
    LET name == GetCheckRunName(g)
        owner == GetOwner(g)
        repo == GetRepo(g)
        arg == [ref |-> GetRef(Val(g.PR).Head), CheckName |-> name.val,
                Filter |-> "all"]
        res == HostListCheckRunsForRef(crs, arg.ref, arg.CheckName, arg.Filter,
                                       fault = "host")
        c1 == <<Call("Checks.ListCheckRunsForRef", arg, res.val, res.err)>>
        open == {i \in 1..Len(res.val) : GetConclusion(res.val[i]) = ""}
        first == CHOOSE i \in open : \A j \in open : i <= j
    IN  IF g.Client = None \/ owner.panic \/ repo.panic \/ g.PR = None \/ name.panic
        THEN [gh |-> g, ret |-> Panic, calls |-> <<>>]
        ELSE IF res.err # NoErr THEN [gh |-> g, ret |-> res.err, calls |-> c1]
        ELSE IF open = {}
        THEN [gh |-> g, ret |-> "ErrorNoActiveCheckRunsFound", calls |-> c1]
        ELSE [gh |-> [g EXCEPT !.ActiveCheckRun = Some(res.val[first])],
              ret |-> NoErr, calls |-> c1]

SetActiveCheckRun(g, crs, fault) ==
    LET name == GetCheckRunName(g)
        owner == GetOwner(g)
        repo == GetRepo(g)
        arg == [ref |-> GetRef(Val(g.PR).Head), CheckName |-> name.val,
                Filter |-> "latest"]
        res == HostListCheckRunsForRef(crs, arg.ref, arg.CheckName, arg.Filter,
                                       fault = "host")
        c1 == <<Call("Checks.ListCheckRunsForRef", arg, res.val, res.err)>>
    IN  IF g.Client = None \/ owner.panic \/ repo.panic \/ g.PR = None \/ name.panic
        THEN [gh |-> g, ret |-> Panic, calls |-> <<>>]
        ELSE IF res.err # NoErr THEN [gh |-> g, ret |-> res.err, calls |-> c1]
        ELSE IF Len(res.val) = 0 \/ GetConclusion(res.val[1]) # ""
        THEN [gh |-> g, ret |-> "ErrorNoActiveCheckRunsFound", calls |-> c1]
        ELSE [gh |-> [g EXCEPT !.ActiveCheckRun = Some(res.val[1])],
              ret |-> NoErr, calls |-> c1]

UpdateActiveCheckRun(g, crs, fault) ==
    LET owner == GetOwner(g)
        repo == GetRepo(g)
        id == GetID(g.ActiveCheckRun)
        res == HostGetCheckRun(crs, id, fault = "host")
        c1 == <<Call("Checks.GetCheckRun", [id |-> id], res.val, res.err)>>
    IN  IF g.Client = None \/ owner.panic \/ repo.panic
        THEN [gh |-> g, ret |-> Panic, calls |-> <<>>]
        ELSE [gh |-> [g EXCEPT !.ActiveCheckRun = res.val], ret |-> res.err,
              calls |-> c1]

\* ConcludeCheckRun patching the tracked run locally instead of taking the
\* host's response.
ConcludeCheckRun_Optimistic(g, crs, summary, conclusion, now, fault) ==
    LET owner == GetOwner(g)
        repo == GetRepo(g)
        opt == [Name |-> GetName(g.ActiveCheckRun),
                HeadBranch |-> None, HeadSHA |-> None,
                Status |-> Some("completed"),
                CompletedAt |-> Some(now),
                Conclusion |-> conclusion,
                Output |-> Some([Title |-> Some("Details"), Summary |-> summary])]
        id == GetID(g.ActiveCheckRun)
        res == HostUpdateCheckRun(crs, id, opt, fault = "host")
        c1 == <<Call("Checks.UpdateCheckRun", [id |-> id, opt |-> opt],
                     res.val, res.err)>>
    IN  IF g.Client = None \/ owner.panic \/ repo.panic
        THEN [gh |-> g, checkRuns |-> crs, ret |-> Panic, calls |-> <<>>]
        ELSE IF res.err # NoErr
        THEN [gh |-> g, checkRuns |-> res.checkRuns, ret |-> res.err, calls |-> c1]
        ELSE [gh |-> [g EXCEPT !.ActiveCheckRun =
                        Some([Val(g.ActiveCheckRun) EXCEPT
                                !.Status = Some("completed"),
                                !.Conclusion = conclusion])],
              checkRuns |-> res.checkRuns, ret |-> res.err, calls |-> c1]

\* ConcludeCheckRun with summary and conclusion in each other's place.
ConcludeCheckRun_SwappedArgs(g, crs, summary, conclusion, now, fault) ==
    LET owner == GetOwner(g)
        repo == GetRepo(g)
        opt == [Name |-> GetName(g.ActiveCheckRun),
                HeadBranch |-> None, HeadSHA |-> None,
                Status |-> Some("completed"),
                CompletedAt |-> Some(now),
                Conclusion |-> summary,
                Output |-> Some([Title |-> Some("Details"), Summary |-> conclusion])]
        id == GetID(g.ActiveCheckRun)
        res == HostUpdateCheckRun(crs, id, opt, fault = "host")
        c1 == <<Call("Checks.UpdateCheckRun", [id |-> id, opt |-> opt],
                     res.val, res.err)>>
    IN  IF g.Client = None \/ owner.panic \/ repo.panic
        THEN [gh |-> g, checkRuns |-> crs, ret |-> Panic, calls |-> <<>>]
        ELSE [gh |-> [g EXCEPT !.ActiveCheckRun = res.val],
              checkRuns |-> res.checkRuns, ret |-> res.err, calls |-> c1]

ConcludeCheckRun(g, crs, summary, conclusion, now, fault) ==
    LET owner == GetOwner(g)
        repo == GetRepo(g)
        opt == [Name |-> GetName(g.ActiveCheckRun),
                HeadBranch |-> None, HeadSHA |-> None,
                Status |-> Some("completed"),
                CompletedAt |-> Some(now),
                Conclusion |-> conclusion,
                Output |-> Some([Title |-> Some("Details"), Summary |-> summary])]
        id == GetID(g.ActiveCheckRun)
        res == HostUpdateCheckRun(crs, id, opt, fault = "host")
        c1 == <<Call("Checks.UpdateCheckRun", [id |-> id, opt |-> opt],
                     res.val, res.err)>>
    IN  IF g.Client = None \/ owner.panic \/ repo.panic
        THEN [gh |-> g, checkRuns |-> crs, ret |-> Panic, calls |-> <<>>]
        ELSE [gh |-> [g EXCEPT !.ActiveCheckRun = res.val],
              checkRuns |-> res.checkRuns, ret |-> res.err, calls |-> c1]

\* UpdateCheckRunStatus building the output whether or not a summary is given.
UpdateCheckRunStatus_AlwaysOutput(g, crs, status, summary, fault) ==
    LET owner == GetOwner(g)
        repo == GetRepo(g)
        opt == [Name |-> GetName(g.ActiveCheckRun),
                HeadBranch |-> Val(g.PR).Head.Ref,
                HeadSHA |-> Val(g.PR).Head.SHA,
                Status |-> status,
                CompletedAt |-> None,
                Conclusion |-> None,
                Output |-> Some([Title |-> Some("Details"),
                                 Summary |-> summary])]
        id == GetID(g.ActiveCheckRun)
        res == HostUpdateCheckRun(crs, id, opt, fault = "host")
        c1 == <<Call("Checks.UpdateCheckRun", [id |-> id, opt |-> opt],
                     res.val, res.err)>>
    IN  IF g.PR = None \/ g.Client = None \/ owner.panic \/ repo.panic
        THEN [gh |-> g, checkRuns |-> crs, ret |-> Panic, calls |-> <<>>]
        ELSE [gh |-> [g EXCEPT !.ActiveCheckRun = res.val],
              checkRuns |-> res.checkRuns, ret |-> res.err, calls |-> c1]

UpdateCheckRunStatus(g, crs, status, summary, fault) ==
    LET owner == GetOwner(g)
        repo == GetRepo(g)
        opt == [Name |-> GetName(g.ActiveCheckRun),
                HeadBranch |-> Val(g.PR).Head.Ref,
                HeadSHA |-> Val(g.PR).Head.SHA,
                Status |-> status,
                CompletedAt |-> None,
                Conclusion |-> None,
                Output |-> IF summary # None
                           THEN Some([Title |-> Some("Details"),
                                      Summary |-> summary])
                           ELSE None]
        id == GetID(g.ActiveCheckRun)
        res == HostUpdateCheckRun(crs, id, opt, fault = "host")
        c1 == <<Call("Checks.UpdateCheckRun", [id |-> id, opt |-> opt],
                     res.val, res.err)>>
    IN  IF g.PR = None \/ g.Client = None \/ owner.panic \/ repo.panic
        THEN [gh |-> g, checkRuns |-> crs, ret |-> Panic, calls |-> <<>>]
        ELSE [gh |-> [g EXCEPT !.ActiveCheckRun = res.val],
              checkRuns |-> res.checkRuns, ret |-> res.err, calls |-> c1]

----------------------------------------------------------------------------
(* The environment: the shared table, process start *)

\* The record another integration type keeps in the same table.
OtherRecord ==
    [f \in PersistedFields |-> IF f = "IntegrationType" THEN Some(OtherKey) ELSE None]

\* Records another writer of the table may leave under the "GitHub" key:
\* one that lacks an attribute, one whose installation id is not a number,
\* one whose pull-request number is not a number.
ForeignRecords ==
    {[IntegrationType |-> Some("GitHub"), CheckRunName |-> Some("sim"),
      InstallationID |-> Some(<<"3", "4">>), IntegrationID |-> Some(<<"1", "2">>),
      RepoOwner |-> Some("octo"), RepoName |-> None, PrNum |-> Some(<<"5">>)],
     [IntegrationType |-> Some("GitHub"), CheckRunName |-> Some("sim"),
      InstallationID |-> Some(<<"3", "y">>), IntegrationID |-> Some(<<"1", "2">>),
      RepoOwner |-> Some("octo"), RepoName |-> Some("tools"),
      PrNum |-> Some(<<"5">>)],
     [IntegrationType |-> Some("GitHub"), CheckRunName |-> Some("sim"),
      InstallationID |-> Some(<<"3", "4">>), IntegrationID |-> Some(<<"1", "2">>),
      RepoOwner |-> Some("octo"), RepoName |-> Some("tools"),
      PrNum |-> Some(<<"z">>)]}

----------------------------------------------------------------------------
(* Actions: one call of one method by process p *)

NoOrigin == [by |-> "none", ret |-> NoErr, a |-> <<>>]

\* The bookkeeping every call shares: who called what, and what came back.
\* A panic ends the process.
Returned(p, name, input, r, cs) ==
    /\ actor' = p
    /\ op' = name
    /\ args' = input
    /\ ret' = r
    /\ calls' = cs
    /\ running' = IF r = Panic THEN [running EXCEPT ![p] = "crashed"] ELSE running

DoConfigFromState(p, faults) ==
    /\ running[p] = "up"
    /\ \E fault \in faults, keep \in BOOLEAN :
        LET r == ConfigFromState(gh[p], store, fault, keep)
        IN  /\ gh' = [gh EXCEPT ![p] = r.gh]
            /\ Returned(p, "ConfigFromState", [fault |-> fault], r.ret, r.calls)
    /\ UNCHANGED <<store, checkRuns, origin>>

DoConfigFromScratch(p, argSet, faults) ==
    /\ running[p] = "up"
    /\ \E fault \in faults, a \in argSet :
        LET r == ConfigFromScratch(gh[p], store, a, fault)
        IN  /\ gh' = [gh EXCEPT ![p] = r.gh]
            /\ store' = r.store
            /\ origin' = IF r.calls[1].err = NoErr
                         THEN [by |-> p, ret |-> r.ret, a |-> a]
                         ELSE origin
            /\ Returned(p, "ConfigFromScratch", [fault |-> fault, a |-> a], r.ret, r.calls)
    /\ UNCHANGED checkRuns

DoCreateNewCheckRun(p) ==
    /\ running[p] = "up"
    /\ Len(checkRuns) < MaxCheckRuns
    /\ \E fault \in {"none", "host"} :
        LET r == CreateNewCheckRun(gh[p], checkRuns, fault)
        IN  /\ gh' = [gh EXCEPT ![p] = r.gh]
            /\ checkRuns' = r.checkRuns
            /\ Returned(p, "CreateNewCheckRun", [fault |-> fault], r.ret, r.calls)
    /\ UNCHANGED <<store, origin>>

DoSetActiveCheckRun(p) ==
    /\ running[p] = "up"
    /\ \E fault \in {"none", "host"} :
        LET r == SetActiveCheckRun(gh[p], checkRuns, fault)
        IN  /\ gh' = [gh EXCEPT ![p] = r.gh]
            /\ Returned(p, "SetActiveCheckRun", [fault |-> fault], r.ret, r.calls)
    /\ UNCHANGED <<store, checkRuns, origin>>

DoUpdateActiveCheckRun(p) ==
    /\ running[p] = "up"
    /\ \E fault \in {"none", "host"} :
        LET r == UpdateActiveCheckRun(gh[p], checkRuns, fault)
        IN  /\ gh' = [gh EXCEPT ![p] = r.gh]
            /\ Returned(p, "UpdateActiveCheckRun", [fault |-> fault], r.ret, r.calls)
    /\ UNCHANGED <<store, checkRuns, origin>>

DoConcludeCheckRun(p) ==
    /\ running[p] = "up"
    /\ \E fault \in {"none", "host"}, summary \in SummaryArgs,
          conclusion \in ConclusionArgs, now \in Timestamps :
        LET r == ConcludeCheckRun(gh[p], checkRuns, summary, conclusion, now, fault)
        IN  /\ gh' = [gh EXCEPT ![p] = r.gh]
            /\ checkRuns' = r.checkRuns
            /\ Returned(p, "ConcludeCheckRun", [fault |-> fault, summary |-> summary,
                               conclusion |-> conclusion, now |-> now], r.ret, r.calls)
    /\ UNCHANGED <<store, origin>>

DoUpdateCheckRunStatus(p) ==
    /\ running[p] = "up"
    /\ \E fault \in {"none", "host"}, status \in StatusArgs,
          summary \in SummaryArgs :
        LET r == UpdateCheckRunStatus(gh[p], checkRuns, status, summary, fault)
        IN  /\ gh' = [gh EXCEPT ![p] = r.gh]
            /\ checkRuns' = r.checkRuns
            /\ Returned(p, "UpdateCheckRunStatus", [fault |-> fault, status |-> status,
                               summary |-> summary], r.ret, r.calls)
    /\ UNCHANGED <<store, origin>>

DoDeleteState(p) ==
    /\ running[p] = "up"
    /\ \E fault \in {"none", "store"} :
        LET r == DeleteState(gh[p], store, fault)
        IN  /\ store' = r.store
            /\ origin' = IF r.ret = NoErr /\ store[GitHubKey] # None
                         THEN [by |-> "deleted", ret |-> NoErr, a |-> <<>>]
                         ELSE origin
            /\ Returned(p, "DeleteState", [fault |-> fault], r.ret, r.calls)
    /\ UNCHANGED <<gh, checkRuns>>

DoValidateState(p) ==
    /\ running[p] = "up"
    /\ Returned(p, "ValidateState", [fault |-> "none"], ValidateState(gh[p]), <<>>)
    /\ UNCHANGED <<gh, store, checkRuns, origin>>

\* A process (re)starts with a zero Integration: new(Integration).
Start(p) ==
    /\ running[p] # "off"
    /\ gh' = [gh EXCEPT ![p] = NewIntegration]
    /\ running' = [running EXCEPT ![p] = "up"]
    /\ actor' = p
    /\ op' = "new"
    /\ args' = [fault |-> "none"]
    /\ ret' = NoErr
    /\ calls' = <<>>
    /\ UNCHANGED <<store, checkRuns, origin>>

\* Another writer of the table replaces the record under the "GitHub" key.
OtherWriter ==
    /\ \E rec \in ForeignRecords : store' = [store EXCEPT ![GitHubKey] = Some(rec)]
    /\ origin' = [by |-> "other", ret |-> NoErr, a |-> <<>>]
    /\ actor' = "other"
    /\ op' = "OtherWriter"
    /\ args' = [fault |-> "none"]
    /\ ret' = NoErr
    /\ calls' = <<>>
    /\ UNCHANGED <<gh, running, checkRuns>>

\* Two processes on one table.  A call of ConfigFromScratch is two steps, cut
\* at the return of PutState, so that another process's calls can fall
\* between the write and the rest of the call.
\* PutState has returned w to process p, called with arguments a.
PutStateReturned(p, a, fault, w) ==
    /\ gh' = [gh EXCEPT ![p] = w.gh]
    /\ store' = w.store
    /\ actor' = p
    /\ args' = [fault |-> fault, a |-> a]
    /\ calls' = w.calls
    /\ ret' = w.err
    /\ op' = IF w.err # NoErr THEN "ConfigFromScratch"
             ELSE "ConfigFromScratch.PutState"
    /\ running' = IF w.err # NoErr THEN running
                  ELSE [running EXCEPT ![p] = "inScratch"]
    /\ origin' = IF w.err # NoErr THEN origin
                 ELSE [by |-> p, ret |-> "running", a |-> a,
                       over |-> IF store[GitHubKey] = None
                                THEN "none" ELSE origin.by]

DoScratchPutState(p, argSet) ==
    /\ running[p] = "up"
    /\ \E fault \in {"none", "store"}, a \in argSet :
        PutStateReturned(p, a, fault, ScratchWrite(gh[p], store, a, fault))
    /\ UNCHANGED checkRuns

DoScratchAuthenticate(p) ==
    /\ running[p] = "inScratch"
    /\ \E fault \in {"none", "ssm"} :
        LET r == ScratchAuthenticate(gh[p], fault)
        IN  /\ gh' = [gh EXCEPT ![p] = r.gh]
            /\ actor' = p
            /\ op' = "ConfigFromScratch"
            /\ args' = [fault |-> fault, a |-> ArgsOf(gh[p])]
            /\ ret' = r.ret
            /\ calls' = r.calls
            /\ running' = [running EXCEPT
                             ![p] = IF r.ret = Panic THEN "crashed" ELSE "up"]
    /\ UNCHANGED <<store, checkRuns, origin>>

----------------------------------------------------------------------------
(* The check-run lifecycle of one job, driven by one process: construction *)
(* (fresh or resumed, here without faults), then the check-run methods.    *)

Init ==
    /\ gh = [p \in Procs |-> NewIntegration]
    /\ running = [p \in Procs |-> IF p = "p1" THEN "up" ELSE "off"]
    /\ store = [k \in StoreKeys |-> IF k = OtherKey THEN Some(OtherRecord) ELSE None]
    /\ checkRuns = <<>>
    /\ actor = "p1"
    /\ op = "new"
    /\ args = [fault |-> "none"]
    /\ ret = NoErr
    /\ calls = <<>>
    /\ origin = NoOrigin

Next ==
    \/ \E p \in Procs : DoConfigFromState(p, {"none"})
    \/ \E p \in Procs : DoConfigFromScratch(p, JobArgs, {"none"})
    \/ \E p \in Procs : DoCreateNewCheckRun(p)
    \/ \E p \in Procs : DoSetActiveCheckRun(p)
    \/ \E p \in Procs : DoUpdateActiveCheckRun(p)
    \/ \E p \in Procs : DoConcludeCheckRun(p)
    \/ \E p \in Procs : DoUpdateCheckRunStatus(p)
    \/ \E p \in Procs : Start(p)

Spec == Init /\ [][Next]_vars

----------------------------------------------------------------------------
(* The construction paths alone, over every argument and every fault *)

NextConfig ==
    \/ \E p \in Procs : DoConfigFromState(p, Faults)
    \/ \E p \in Procs : DoConfigFromScratch(p, ScratchArgs, Faults)
    \/ \E p \in Procs : DoDeleteState(p)
    \/ \E p \in Procs : DoValidateState(p)
    \/ \E p \in Procs : Start(p)
    \/ OtherWriter

SpecConfig == Init /\ [][NextConfig]_vars

----------------------------------------------------------------------------
(* ValidateState alone, applied to every pattern of set and unset fields *)

PartialIntegrations ==
    {[NewIntegration EXCEPT !.IntegrationID = i, !.InstallationID = j,
                            !.PrNum = n, !.RepoName = r, !.RepoOwner = o,
                            !.CheckRunName = c] :
        i \in {None, Some(<<"1", "2">>)}, j \in {None, Some(<<"3", "4">>)},
        n \in {None, Some(<<"5">>)}, r \in {None, Some("tools")},
        o \in {None, Some("octo")}, c \in {None, Some(""), Some("sim")}}

InitValidate ==
    /\ gh \in [Procs -> PartialIntegrations \cup {NewIntegration}]
    /\ gh["p2"] = NewIntegration
    /\ running = [p \in Procs |-> IF p = "p1" THEN "up" ELSE "off"]
    /\ store = [k \in StoreKeys |-> IF k = OtherKey THEN Some(OtherRecord) ELSE None]
    /\ checkRuns = <<>>
    /\ actor = "p1"
    /\ op = "new"
    /\ args = [fault |-> "none"]
    /\ ret = NoErr
    /\ calls = <<>>
    /\ origin = NoOrigin

NextValidate == \E p \in Procs : DoValidateState(p)

SpecValidate == InitValidate /\ [][NextValidate]_vars

----------------------------------------------------------------------------
(* Two processes constructing, resuming and tearing down on the same table *)

\* What each process passes to ConfigFromScratch: the same job but for the
\* pull-request number, so that a record tells its writer.
RaceArgs(p) ==
    {a \in ScratchArgs : /\ a.checkRunName = "sim"
                         /\ a.integrationID = <<"1", "2">>
                         /\ a.prNum = IF p = "p1" THEN <<"5">> ELSE <<"0", "6">>}

InitRace ==
    /\ gh = [p \in Procs |-> NewIntegration]
    /\ running = [p \in Procs |-> "up"]
    /\ store = [k \in StoreKeys |-> IF k = OtherKey THEN Some(OtherRecord) ELSE None]
    /\ checkRuns = <<>>
    /\ actor = "p1"
    /\ op = "new"
    /\ args = [fault |-> "none"]
    /\ ret = NoErr
    /\ calls = <<>>
    /\ origin = NoOrigin

NextRace ==
    \/ \E p \in Procs : DoScratchPutState(p, RaceArgs(p))
    \/ \E p \in Procs : DoScratchAuthenticate(p)
    \/ \E p \in Procs : DoConfigFromState(p, {"none"})
    \/ \E p \in Procs : DoDeleteState(p)

SpecRace == InitRace /\ [][NextRace]_vars

----------------------------------------------------------------------------
(* Properties *)

ConfigOps == {"ConfigFromState", "ConfigFromScratch"}

LastCall == calls[Len(calls)]

\* The positions of the absent fields, in the order ValidateState is to
\* check them: appId, installationId, prNumber, repoName, repoOwner,
\* checkRunName.
AbsentFields(g) == {i \in 1..Len(ConfigFields) : g[ConfigFields[i]] = None}

FirstAbsent(g) ==
    CHOOSE i \in AbsentFields(g) : \A j \in AbsentFields(g) : i <= j

\* The field an ErrorMissingAttribute message names.
FieldNamedBy(err) ==
    CASE err = "ErrorMissingAttribute: IntegrationID" -> "IntegrationID"
      [] err = "ErrorMissingAttribute: InstallationID " -> "InstallationID"
      [] err = "ErrorMissingAttribute: PrNum" -> "PrNum"
      [] err = "ErrorMissingAttribute: RepoName" -> "RepoName"
      [] err = "ErrorMissingAttribute: RepoOwner" -> "RepoOwner"
      [] err = "ErrorMissingAttribute: CheckRunName" -> "CheckRunName"
      [] OTHER -> "none"

\* C3: ValidateState succeeds iff none of the six fields is nil; otherwise
\* its error names the first nil field in the order IntegrationID,
\* InstallationID, PrNum, RepoName, RepoOwner, CheckRunName; and the call
\* changes no field.
C3_ValidateState ==
    [][op' = "ValidateState" =>
        /\ (ret' = NoErr) <=> (AbsentFields(gh[actor']) = {})
        /\ AbsentFields(gh[actor']) # {} =>
             FieldNamedBy(ret') = ConfigFields[FirstAbsent(gh[actor'])]
        /\ gh' = gh]_vars

\* ValidateState has reported RepoName for an Integration that lacks both
\* RepoName and RepoOwner.
C3_Witness ==
    /\ op = "ValidateState"
    /\ ret = "ErrorMissingAttribute: RepoName"
    /\ gh[actor].RepoName = None
    /\ gh[actor].RepoOwner = None
    /\ gh[actor].IntegrationID # None

----------------------------------------------------------------------------
(* Construction: what an error return leaves behind *)

\* C1 as stated: after ConfigFromState or ConfigFromScratch, an error return
\* leaves Client unset, and a nil return leaves Client and PR set.
C1_ErrorLeavesNoClient ==
    op \in ConfigOps =>
        /\ ret \notin {NoErr, Panic} => gh[actor].Client = None
        /\ ret = NoErr => gh[actor].Client # None /\ gh[actor].PR # None

\* C1 amended: an error return from a step before the pull-request fetch
\* (load or write, validation, secret, ghapp.New) leaves Client as it was
\* before the call; an error return from the pull-request fetch leaves the
\* new Client set and PR nil; a nil return leaves Client and PR set.
C1_ClientAfterConfig ==
    [][op' \in ConfigOps =>
        LET last == calls'[Len(calls')]
            failed == ret' \notin {NoErr, Panic}
        IN  /\ failed /\ last.fn # "PullRequests.Get" =>
                 gh'[actor'].Client = gh[actor'].Client
            /\ failed /\ last.fn = "PullRequests.Get" =>
                 /\ gh'[actor'].Client = NewClient(calls'[Len(calls') - 1].val)
                 /\ gh'[actor'].PR = None
            /\ ret' = NoErr =>
                 gh'[actor'].Client # None /\ gh'[actor'].PR # None]_vars

\* A construction call has returned the pull-request fetch's error with the
\* client installed.
C1_Witness ==
    /\ op \in ConfigOps
    /\ ret \in {TransportError, NotFoundError}
    /\ LastCall.fn = "PullRequests.Get"
    /\ gh[actor].Client # None
    /\ gh[actor].PR = None

\* C2: ConfigFromScratch calls PutState first, ahead of the Secret Provider
\* and of ghapp.New; when the write fails it returns that error having
\* called neither, and leaves Client and the store as they were.
C2_PutStateFirst ==
    [][op' = "ConfigFromScratch" =>
        /\ calls'[1].fn = "PutState"
        /\ \A i \in 1..Len(calls') :
             calls'[i].fn \in {"GetParameter", "ghapp.New"} =>
                 i > 1 /\ calls'[1].err = NoErr
        /\ calls'[1].err # NoErr =>
             /\ ret' = calls'[1].err
             /\ \A i \in 1..Len(calls') :
                  calls'[i].fn \notin {"GetParameter", "ghapp.New",
                                        "PullRequests.Get"}
             /\ gh'[actor'].Client = gh[actor'].Client
             /\ store' = store]_vars

\* ConfigFromScratch has returned the store's error on a fresh Integration:
\* one call, no client.
C2_Witness ==
    /\ op = "ConfigFromScratch"
    /\ args.fault = "store"
    /\ ret = StateStoreError
    /\ Len(calls) = 1
    /\ gh[actor].Client = None

----------------------------------------------------------------------------
(* Construction: the record and the round trip *)

\* The record ConfigFromScratch is to leave for arguments a.
ExpectedRecord(a) ==
    [IntegrationType |-> Some("GitHub"), CheckRunName |-> Some(a.checkRunName),
     InstallationID |-> Some(a.installationID),
     IntegrationID |-> Some(a.integrationID), RepoOwner |-> Some(a.repoOwner),
     RepoName |-> Some(a.repoName), PrNum |-> Some(a.prNum)]

\* The six identity fields of g hold the arguments a.
HoldsArgs(g, a) ==
    /\ g.CheckRunName = Some(a.checkRunName)
    /\ g.InstallationID = Some(a.installationID)
    /\ g.IntegrationID = Some(a.integrationID)
    /\ g.RepoOwner = Some(a.repoOwner)
    /\ g.RepoName = Some(a.repoName)
    /\ g.PrNum = Some(a.prNum)

\* C4: while the last writer of the "GitHub" record is a ConfigFromScratch
\* whose write succeeded, the record is in the store with its arguments,
\* whatever that call returned afterwards; and when a later step of it
\* failed, a ConfigFromState whose load is not made to fail loads the record,
\* passes ValidateState and goes on to GetParameter with those six fields.
C4_ResumeAfterFailedScratch ==
    /\ [](origin.by \in Procs =>
            store["GitHub"] = Some(ExpectedRecord(origin.a)))
    /\ [][(/\ op' = "ConfigFromState"
           /\ origin.by \in Procs
           /\ origin.ret # NoErr
           /\ args'.fault # "store") =>
            /\ calls'[1].fn = "GetState" /\ calls'[1].err = NoErr
            /\ Len(calls') >= 2 /\ calls'[2].fn = "GetParameter"
            /\ HoldsArgs(gh'[actor'], origin.a)]_vars

\* ConfigFromState has reached GetParameter on the record of a
\* ConfigFromScratch that failed at secret retrieval.
C4_Witness ==
    /\ op = "ConfigFromState"
    /\ origin.by \in Procs
    /\ origin.ret = SecretRetrievalError
    /\ Len(calls) >= 2 /\ calls[2].fn = "GetParameter"
    /\ HoldsArgs(gh[actor], origin.a)

C10_DeleteIdempotent ==
    [][op' = "DeleteState" /\ ret' # Panic =>
        /\ Len(calls') = 1
        /\ calls'[1].fn = "DeleteState" /\ calls'[1].arg.key = "GitHub"
        /\ ret' = NoErr =>
             /\ store'["GitHub"] = None
             /\ \A k \in StoreKeys \ {"GitHub"} : store'[k] = store[k]
        /\ args'.fault = "none" => ret' = NoErr
        /\ store["GitHub"] = None /\ args'.fault = "none" =>
             ret' = NoErr /\ store' = store]_vars

\* DeleteState has returned nil on a record an earlier DeleteState removed.
C10_Witness ==
    /\ op = "DeleteState"
    /\ ret = NoErr
    /\ origin.by = "deleted"
    /\ calls[1].val = None
    /\ store["GitHub"] = None

----------------------------------------------------------------------------
(* Check-run lifecycle *)

CheckRunOps ==
    {"CreateNewCheckRun", "SetActiveCheckRun", "UpdateActiveCheckRun",
     "UpdateCheckRunStatus", "ConcludeCheckRun"}

\* C6: when the list the host returns is non-empty and its first entry has
\* an empty conclusion, SetActiveCheckRun returns nil and ActiveCheckRun is
\* that entry, which is the host's run of that id.
C6_SetActiveSucceeds ==
    (/\ op = "SetActiveCheckRun"
     /\ calls # <<>>
     /\ calls[1].err = NoErr
     /\ calls[1].val # <<>>
     /\ GetConclusion(calls[1].val[1]) = "") =>
        /\ ret = NoErr
        /\ gh[actor].ActiveCheckRun = Some(calls[1].val[1])
        /\ calls[1].val[1] = checkRuns[calls[1].val[1].ID]

\* With a concluded first run and an open second one on the host,
\* SetActiveCheckRun has picked the second.
C6_Witness ==
    /\ op = "SetActiveCheckRun"
    /\ ret = NoErr
    /\ Len(checkRuns) = 2
    /\ GetConclusion(checkRuns[1]) = "success"
    /\ gh[actor].ActiveCheckRun = Some(checkRuns[2])

\* C7: when the list is empty or its first entry has a non-empty conclusion,
\* SetActiveCheckRun returns ErrorNoActiveCheckRunsFound, makes no create
\* call and leaves the host's check runs as they were.
C7_NoActiveCheckRun ==
    [][(/\ op' = "SetActiveCheckRun"
        /\ calls' # <<>>
        /\ calls'[1].err = NoErr
        /\ (calls'[1].val = <<>> \/ GetConclusion(calls'[1].val[1]) # "")) =>
            /\ ret' = "ErrorNoActiveCheckRunsFound"
            /\ \A i \in 1..Len(calls') : calls'[i].fn # "Checks.CreateCheckRun"
            /\ checkRuns' = checkRuns]_vars

\* SetActiveCheckRun has refused a list whose first entry concluded "success".
C7_Witness ==
    /\ op = "SetActiveCheckRun"
    /\ ret = "ErrorNoActiveCheckRunsFound"
    /\ calls[1].val # <<>>
    /\ GetConclusion(calls[1].val[1]) = "success"

\* What the host returned for the last check-run call.
HostResponse ==
    IF op = "SetActiveCheckRun" THEN Some(calls[1].val[1]) ELSE calls[1].val

\* C8: after a check-run method that returned nil, ActiveCheckRun is the
\* check run the host returned for that call, which is the host's run of
\* that id as it now stands.
C8_ActiveIsHostResponse ==
    op \in CheckRunOps /\ ret = NoErr =>
        /\ HostResponse # None
        /\ gh[actor].ActiveCheckRun = HostResponse
        /\ Val(HostResponse) = checkRuns[Val(HostResponse).ID]

\* ConcludeCheckRun has succeeded and the tracked run is the host's
\* completed run, output and timestamp included.
C8_Witness ==
    /\ op = "ConcludeCheckRun"
    /\ ret = NoErr
    /\ gh[actor].ActiveCheckRun = calls[1].val
    /\ Val(gh[actor].ActiveCheckRun).CompletedAt # None
    /\ Val(gh[actor].ActiveCheckRun).Output # None

\* C9: ConcludeCheckRun makes exactly one update call, for the id of the
\* tracked check run, with status "completed", a completion timestamp, the
\* caller's conclusion, and an output titled "Details" with the caller's
\* summary; when it returns nil the tracked run is completed with a
\* non-empty conclusion.
C9_ConcludePayload ==
    [][op' = "ConcludeCheckRun" /\ ret' # Panic =>
        /\ Len(calls') = 1
        /\ calls'[1].fn = "Checks.UpdateCheckRun"
        /\ calls'[1].arg.id = GetID(gh[actor'].ActiveCheckRun)
        /\ calls'[1].arg.opt.Status = Some("completed")
        /\ calls'[1].arg.opt.CompletedAt = Some(args'.now)
        /\ calls'[1].arg.opt.Conclusion = args'.conclusion
        /\ calls'[1].arg.opt.Output =
             Some([Title |-> Some("Details"), Summary |-> args'.summary])
        /\ ret' = NoErr =>
             /\ gh'[actor'].ActiveCheckRun # None
             /\ Val(gh'[actor'].ActiveCheckRun).Status = Some("completed")
             /\ GetConclusion(Val(gh'[actor'].ActiveCheckRun)) # ""]_vars

\* ConcludeCheckRun("details", "success") has succeeded on a run that was
\* tracked.
C9_Witness ==
    /\ op = "ConcludeCheckRun"
    /\ ret = NoErr
    /\ args.summary = Some("details")
    /\ args.conclusion = Some("success")
    /\ GetConclusion(Val(gh[actor].ActiveCheckRun)) = "success"

----------------------------------------------------------------------------
(* What the store holds *)

SessionFields == {"Client", "PR", "ActiveCheckRun", "State"}

StoreFns == {"PutState", "GetState", "DeleteState"}

----------------------------------------------------------------------------
(* Two writers of one record *)

\* C12: with two processes calling ConfigFromScratch on the same table, in
\* every interleaving of their PutState calls with each other's steps: the
\* record is exactly the one the last PutState wrote, whatever was there; a
\* PutState that is not made to fail succeeds over another process's record,
\* and the call then returns what its own arguments give, no conflict; a
\* ConfigFromState that loads the record ends with the last writer's fields,
\* also when the caller wrote an earlier record itself; and a DeleteState
\* that is not made to fail removes the record whoever wrote it.
C12_LastWriterWins ==
    /\ [](origin.by \in Procs =>
            store["GitHub"] = Some(ExpectedRecord(origin.a)))
    /\ [][op' = "ConfigFromScratch.PutState" =>
            /\ store'["GitHub"] = Some(ExpectedRecord(args'.a))
            /\ origin'.by = actor']_vars
    /\ [][(/\ op' \in {"ConfigFromScratch.PutState", "ConfigFromScratch"}
           /\ args'.fault = "none") =>
            /\ calls'[1].err = NoErr
            /\ op' = "ConfigFromScratch" =>
                 ret' = IF args'.a.prNum = <<"5">> THEN NoErr ELSE NotFoundError]_vars
    /\ [][(/\ op' = "ConfigFromState"
           /\ calls'[1].err = NoErr
           /\ origin.by \in Procs) =>
            HoldsArgs(gh'[actor'], origin.a)]_vars
    /\ [][(/\ op' = "DeleteState"
           /\ args'.fault = "none"
           /\ ret' # Panic) =>
            ret' = NoErr /\ store'["GitHub"] = None]_vars

\* p1 wrote its record, p2 wrote over it, and p1's ConfigFromState has loaded
\* p2's pull-request number in place of its own.
C12_Witness ==
    /\ op = "ConfigFromState"
    /\ actor = "p1"
    /\ origin.by = "p2"
    /\ origin.over = "p1"
    /\ calls[1].err = NoErr
    /\ gh["p1"].PrNum = Some(<<"0", "6">>)
    /\ gh["p2"].PrNum = Some(<<"0", "6">>)

----------------------------------------------------------------------------
(* Resuming: the order of the steps *)

\* The collaborator calls of ConfigFromState, in the order of the code.
StateSteps == <<"GetState", "GetParameter", "ghapp.New", "PullRequests.Get">>

\* C13: the calls ConfigFromState makes are a prefix of load, secret,
\* ghapp.New, pull-request fetch, each made once; a call is made only after
\* every earlier one succeeded; the error of the call it stops at is what it
\* returns; with the record loaded and a field missing it returns the error
\* naming the first missing field; and when the load or the validation fails
\* the load is the only call: no secret is fetched, no host call is made.
C13_StepOrder ==
    [][op' = "ConfigFromState" =>
        LET n == Len(calls')
            g == gh'[actor']
        IN  /\ n \in 1..Len(StateSteps)
            /\ \A i \in 1..n : calls'[i].fn = StateSteps[i]
            /\ \A i \in 1..(n - 1) : calls'[i].err = NoErr
            /\ calls'[n].err # NoErr => ret' = calls'[n].err
            /\ calls'[1].err # NoErr \/ AbsentFields(g) # {} => n = 1
            /\ calls'[1].err = NoErr /\ AbsentFields(g) # {} =>
                 FieldNamedBy(ret') = ConfigFields[FirstAbsent(g)]
            /\ calls'[1].err = NoErr /\ AbsentFields(g) = {} => n >= 2
            /\ calls'[n].err = NoErr /\ AbsentFields(g) = {} =>
                 ret' = IF n = Len(StateSteps) THEN NoErr ELSE Panic
            /\ args'.fault = "store" => ret' = StateStoreError
            /\ args'.fault = "ssm" /\ n >= 2 =>
                 ret' = SecretRetrievalError /\ n = 2
            /\ args'.fault = "auth" /\ n >= 3 =>
                 ret' = AuthenticationError /\ n = 3
            /\ args'.fault = "host" /\ n >= 4 => ret' = TransportError]_vars

\* ConfigFromState has stopped at validation, on a record without RepoName,
\* in a call whose secret retrieval would have failed had it been reached.
C13_Witness ==
    /\ op = "ConfigFromState"
    /\ args.fault = "ssm"
    /\ ret = "ErrorMissingAttribute: RepoName"
    /\ Len(calls) = 1
    /\ calls[1].err = NoErr
    /\ gh[actor].Client = None

----------------------------------------------------------------------------
(* Fresh construction: what gets written *)

\* Arguments a defensive check would let through: every string non-empty,
\* every identifier a number.
ValidArgs(a) ==
    /\ a.repoOwner # "" /\ a.repoName # "" /\ a.checkRunName # ""
    /\ Atoi(a.installationID).ok
    /\ Atoi(a.integrationID).ok
    /\ Atoi(a.prNum).ok

\* C14: a ConfigFromScratch called with an empty argument or a non-numeric
\* identifier writes nothing: no PutState of it succeeds and no record of
\* its arguments is in the store.
C14_NeverPersistsInvalid ==
    op = "ConfigFromScratch" /\ ~ValidArgs(args.a) =>
        /\ \A i \in 1..Len(calls) :
             calls[i].fn = "PutState" => calls[i].err # NoErr
        /\ store["GitHub"] # Some(ExpectedRecord(args.a))

----------------------------------------------------------------------------
(* Identifiers that are not numbers *)

\* s is written as a decimal integer: digits, at least one, after an
\* optional sign.
IsNumeral(s) ==
    LET k == IF Len(s) > 0 /\ s[1] \in {"+", "-"} THEN 2 ELSE 1
    IN  k <= Len(s) /\ \A i \in k..Len(s) : s[i] \in Digits

\* C15: on a field that is set, each of GetPrNum, GetAppInstID, GetAppIntID
\* panics exactly when the string is not a decimal integer.  A ConfigFromState
\* that loads a record with all six fields present and a non-numeric
\* IntegrationID or InstallationID, and whose secret retrieval succeeds,
\* ends in a panic after GetParameter and before ghapp.New, the process
\* gone and no client installed by the call; with the two ids numeric and a
\* non-numeric PrNum it ends in a panic after ghapp.New, the client
\* installed.
C15_NumericAccessorsPanic ==
    /\ [](\A p \in Procs :
            /\ gh[p].PrNum # None =>
                 (GetPrNum(gh[p]).panic <=> ~IsNumeral(Val(gh[p].PrNum)))
            /\ gh[p].InstallationID # None =>
                 (GetAppInstID(gh[p]).panic <=>
                    ~IsNumeral(Val(gh[p].InstallationID)))
            /\ gh[p].IntegrationID # None =>
                 (GetAppIntID(gh[p]).panic <=>
                    ~IsNumeral(Val(gh[p].IntegrationID))))
    /\ [][(/\ op' = "ConfigFromState"
           /\ calls'[1].err = NoErr
           /\ AbsentFields(gh'[actor']) = {}
           /\ args'.fault # "ssm") =>
            LET g == gh'[actor']
                idsOK == /\ IsNumeral(Val(g.IntegrationID))
                         /\ IsNumeral(Val(g.InstallationID))
            IN  /\ ~idsOK =>
                     /\ ret' = Panic
                     /\ running'[actor'] = "crashed"
                     /\ Len(calls') = 2
                     /\ calls'[2].fn = "GetParameter" /\ calls'[2].err = NoErr
                     /\ g.Client = gh[actor'].Client
                /\ idsOK /\ ~IsNumeral(Val(g.PrNum)) /\ args'.fault # "auth" =>
                     /\ ret' = Panic
                     /\ running'[actor'] = "crashed"
                     /\ Len(calls') = 3
                     /\ calls'[3].fn = "ghapp.New" /\ calls'[3].err = NoErr
                     /\ g.Client = NewClient(calls'[3].val)
                /\ idsOK /\ IsNumeral(Val(g.PrNum)) => ret' # Panic]_vars

\* ConfigFromState has loaded a complete record whose installation id is
\* "3y", fetched the secret, and panicked.
C15_Witness ==
    /\ op = "ConfigFromState"
    /\ ret = Panic
    /\ running[actor] = "crashed"
    /\ AbsentFields(gh[actor]) = {}
    /\ gh[actor].InstallationID = Some(<<"3", "y">>)
    /\ Len(calls) = 2
    /\ LastCall.fn = "GetParameter"
    /\ LastCall.err = NoErr

----------------------------------------------------------------------------
(* Status updates *)

\* The tracked check run of g is Active: set, and without a conclusion.
IsActive(g) ==
    g.ActiveCheckRun # None /\ GetConclusion(Val(g.ActiveCheckRun)) = ""

\* C16: UpdateCheckRunStatus(status, summary) makes exactly one update call,
\* for the id of the tracked check run, carrying the given status and the
\* pull request's head branch and head SHA, an output titled "Details" with
\* the given summary when a summary is given and no output when it is not,
\* no conclusion and no completion timestamp; and when the tracked run was
\* Active and the call returns nil, the tracked run is the same run, still
\* Active.
C16_StatusPayload ==
    [][op' = "UpdateCheckRunStatus" /\ ret' # Panic =>
        LET opt == calls'[1].arg.opt
            old == gh[actor']
        IN  /\ Len(calls') = 1
            /\ calls'[1].fn = "Checks.UpdateCheckRun"
            /\ calls'[1].arg.id = GetID(old.ActiveCheckRun)
            /\ opt.Status = args'.status
            /\ opt.HeadBranch = Some(GetRef(Val(old.PR).Head))
            /\ opt.HeadSHA = Some(GetSHA(Val(old.PR).Head))
            /\ (opt.Output # None) <=> (args'.summary # None)
            /\ args'.summary # None =>
                 opt.Output = Some([Title |-> Some("Details"),
                                    Summary |-> args'.summary])
            /\ opt.Conclusion = None
            /\ opt.CompletedAt = None
            /\ ret' = NoErr /\ IsActive(old) =>
                 /\ IsActive(gh'[actor'])
                 /\ GetID(gh'[actor'].ActiveCheckRun) = GetID(old.ActiveCheckRun)
                 /\ Val(gh'[actor'].ActiveCheckRun).Status = args'.status]_vars

\* UpdateCheckRunStatus("in_progress", nil) has succeeded on an Active run:
\* no output was sent, and the run is in progress and still Active.
C16_Witness ==
    /\ op = "UpdateCheckRunStatus"
    /\ ret = NoErr
    /\ args.summary = None
    /\ calls[1].arg.opt.Output = None
    /\ IsActive(gh[actor])
    /\ Val(gh[actor].ActiveCheckRun).Status = Some("in_progress")

----------------------------------------------------------------------------
(* The tracked check run across failures *)

\* The methods that work on the tracked check run.
TrackedRunOps ==
    {"UpdateActiveCheckRun", "UpdateCheckRunStatus", "ConcludeCheckRun"}

\* C17: once ActiveCheckRun is set, a refresh, a status update or a conclude
\* leaves it set, and one that returns an error leaves it the check run it
\* was.
C17_ActiveStaysSet ==
    [][(/\ op' \in TrackedRunOps
        /\ gh[actor'].ActiveCheckRun # None) =>
            /\ gh'[actor'].ActiveCheckRun # None
            /\ ret' # NoErr =>
                 gh'[actor'].ActiveCheckRun = gh[actor'].ActiveCheckRun]_vars

\* C18: a SetActiveCheckRun that returns an error, be it the list call's
\* error or ErrorNoActiveCheckRunsFound for an empty list or a concluded
\* first entry, leaves every field of the Integration as it was, the
\* tracked check run included, and the host's check runs too.
C18_FailedLocateChangesNothing ==
    [][op' = "SetActiveCheckRun" /\ ret' \notin {NoErr, Panic} =>
        /\ gh'[actor'] = gh[actor']
        /\ checkRuns' = checkRuns
        /\ (\/ calls'[1].err = ret'
            \/ /\ ret' = "ErrorNoActiveCheckRunsFound"
               /\ calls'[1].err = NoErr
               /\ (calls'[1].val = <<>>
                     \/ GetConclusion(calls'[1].val[1]) # ""))]_vars

\* SetActiveCheckRun has failed on the list call's transport error and the
\* Integration still tracks the Active check run it tracked before.
C18_Witness ==
    /\ op = "SetActiveCheckRun"
    /\ ret = TransportError
    /\ args.fault = "host"
    /\ IsActive(gh[actor])
    /\ gh[actor].ActiveCheckRun = Some(checkRuns[GetID(gh[actor].ActiveCheckRun)])

----------------------------------------------------------------------------
(* What the check-run methods leave alone *)

\* C19: no check-run method changes PR or any of IntegrationID,
\* InstallationID, PrNum, RepoName, RepoOwner; CheckRunName is changed by a
\* CreateNewCheckRun that returns nil, which sets it to the name in the
\* host's response and leaves the store as it was, and by nothing else: not
\* by a failed CreateNewCheckRun, not by any of the other four methods
\* whatever they return.
C19_OnlyCreateSetsName ==
    [][op' \in CheckRunOps =>
        LET old == gh[actor']
            new == gh'[actor']
        IN  /\ new.PR = old.PR
            /\ \A i \in 1..Len(ConfigFields) :
                 ConfigFields[i] # "CheckRunName" =>
                     new[ConfigFields[i]] = old[ConfigFields[i]]
            /\ new.IntegrationType = old.IntegrationType
            /\ IF op' = "CreateNewCheckRun" /\ ret' = NoErr
               THEN /\ new.CheckRunName = Val(calls'[1].val).Name
                    /\ new.CheckRunName = checkRuns'[Len(checkRuns')].Name
                    /\ store' = store
               ELSE new.CheckRunName = old.CheckRunName]_vars

\* A second CreateNewCheckRun has succeeded: CheckRunName is the name of
\* the host's new run, PR is the pull request fetched at construction, and
\* the store has the record as ConfigFromScratch wrote it.
C19_Witness ==
    /\ op = "CreateNewCheckRun"
    /\ ret = NoErr
    /\ Len(checkRuns) = 2
    /\ gh[actor].CheckRunName = checkRuns[2].Name
    /\ gh[actor].ActiveCheckRun = Some(checkRuns[2])
    /\ gh[actor].PR = Some(HostPullRequest)
    /\ origin.by \in Procs
    /\ store["GitHub"] = Some(ExpectedRecord(origin.a))

----------------------------------------------------------------------------
(* The lifecycle only moves forward *)

\* The host's runs named n on the pull request's head, newest first.
RunsNamed(n) == Matching(checkRuns, n, GetSHA(HostPullRequest.Head))

\* The host's newest run named n is concluded.
LatestConcluded(n) ==
    RunsNamed(n) # <<>> /\ GetConclusion(RunsNamed(n)[1]) # ""

\* The tracked check run of g is Concluded: set, with a conclusion.
IsConcluded(g) ==
    g.ActiveCheckRun # None /\ GetConclusion(Val(g.ActiveCheckRun)) # ""

====
